---------------------------- MODULE Spec2Model ----------------------------
(***************************************************************************)
(* The refresh pipeline of prometheus-trusted-advisor-exporter.            *)
(*                                                                         *)
(* The repository holds two versions of the program:                       *)
(*   "legacy"  src/main.go: refreshChecks starts one goroutine per listed  *)
(*             check (go refreshSpecificCheck) and returns; a check is     *)
(*             fetched once, without retry.                                *)
(*   "pool"    src/Dockerfile:275-458 (and, with the v2 SDK, :84-273):     *)
(*             refreshChecks feeds a buffered channel drained by           *)
(*             `concurrency` workers and waits on a WaitGroup; a fetch is  *)
(*             tried up to 3 times with a sleep after every failure.       *)
(* Both share the gauge reconciliation: four DeleteLabelValues, then       *)
(* WithLabelValues(...).Add(count).                                        *)
(***************************************************************************)
EXTENDS Integers, Sequences, FiniteSets, Bags, TLC

VARIABLES
    variant,      \* which version of main runs: "pool" or "legacy"
    env,          \* the process environment: CONCURRENCY, REFRESH_PERIOD
    concurrency,  \* main's local `concurrency` (pool), 0 until parsed
    proc,         \* the process: "running", "fatal" (log.Fatalf), "exit0"
    mainpc,       \* position of main
    ticker,       \* refreshChecksPeriodically: "off", "waiting", "refreshing"
    opc,          \* position of the refreshChecks call in progress, or "idle"
    caller,       \* who called refreshChecks: "main" or "periodic"
    listing,      \* resp.Checks of the call in progress (or of the last one)
    idx,          \* loop index over resp.Checks (send loop / go loop)
    jobs,         \* the buffered channel `jobs` (pool)
    closed,       \* whether `jobs` was closed
    wg,           \* the WaitGroup counter (pool)
    gor,          \* the bag of goroutines running workers / refreshSpecificCheck
    gauge,        \* taGaugeVec: label tuple -> value
    fetched,      \* history: per checkid, the fetch outcome of the latest cycle
    expect,       \* history: the latest cycle's refreshes applied one after another
    overlapped,   \* history: the latest cycle ran while another one was running
    dirty,        \* history: checkids whose running reconciliations overlapped
    handed        \* history: per checkid, refreshSpecificCheck calls of the latest cycle

vars == <<variant, env, concurrency, proc, mainpc, ticker, opc, caller, listing,
          idx, jobs, closed, wg, gor, gauge, fetched, expect, overlapped, dirty, handed>>

(***************************************************************************)
(* Bounds of the model.                                                    *)
(***************************************************************************)
\* largest CONCURRENCY the environment sets
MaxConcurrency == 2
\* most goroutines of the legacy version alive at once (a tick whose listing
\* would exceed it is not taken)
MaxGoroutines == 2

\* retries < 3
MaxAttempts == 3

None == "none"
\* an environment value: decimal digits spelling n, or text Atoi rejects
Digits(n) == [digits |-> TRUE, n |-> n]
BadInt == [digits |-> FALSE, n |-> 0]
Failed == "failed"

Variants == {"pool", "legacy"}

\* var Statuses = []string{"ok", "warning", "error", "not_available"}
Statuses == <<"ok", "warning", "error", "not_available">>

StatusSet == {Statuses[i] : i \in 1..Len(Statuses)}

CheckIds == {"A", "B"}

\* The (name, category) pairs DescribeTrustedAdvisorChecks may report for a
\* checkid; check B is renamed between some listings.
Metas(id) ==
    IF id = "A" THEN {<<"nameA", "security">>}
    ELSE {<<"nameB", "cost_optimizing">>, <<"nameB2", "cost_optimizing">>}

\* type checkJob struct { checkId, checkName, checkCategory }
checkJob(id, meta) == [checkId |-> id, checkName |-> meta[1], checkCategory |-> meta[2]]

\* The listings DescribeTrustedAdvisorChecks may return: any subset of the
\* checks, each id once, in the API's order.
Listings ==
    {<<>>} \cup
    {<<checkJob("A", m)>> : m \in Metas("A")} \cup
    {<<checkJob("B", m)>> : m \in Metas("B")} \cup
    {<<checkJob("A", ma), checkJob("B", mb)>> : ma \in Metas("A"), mb \in Metas("B")}

\* The results DescribeTrustedAdvisorCheckResult may return: Status, the
\* optional ResourcesSummary.ResourcesFlagged and len(FlaggedResources).
\* result.ResourcesSummary: nil, or one whose ResourcesFlagged is n
NoSummary == [nil |-> TRUE, ResourcesFlagged |-> 0]
Summary(n) == [nil |-> FALSE, ResourcesFlagged |-> n]

\* Check A is found ok with nothing flagged or warning with 8 resources
\* flagged, check B always ok.
Results(id) ==
    IF id = "A"
    THEN { [status |-> "ok",      summary |-> NoSummary,  nFlagged |-> 0],
           [status |-> "warning", summary |-> Summary(8), nFlagged |-> 8] }
    ELSE { [status |-> "ok",      summary |-> Summary(0), nFlagged |-> 0] }

\* The value refreshSpecificCheck passes to Add.
FlaggedCount(v, resp) ==
    IF v = "legacy" /\ ~resp.summary.nil THEN resp.summary.ResourcesFlagged
    ELSE resp.nFlagged

(***************************************************************************)
(* The gauge vector.                                                       *)
(***************************************************************************)
Tuple(job, s) ==
    [checkid |-> job.checkId, name |-> job.checkName,
     category |-> job.checkCategory, status |-> s]

\* mutant: the delete takes the series of that status of every check
DeleteAllOfStatus(g, t) == [x \in {y \in DOMAIN g : y.status # t.status} |-> g[x]]

\* mutant: the series is left in place
DeleteNothing(g, t) == g

\* GaugeVec.DeleteLabelValues: removes exactly that series, if present
DeleteLabelValues(g, t) == [x \in (DOMAIN g) \ {t} |-> g[x]]

\* GaugeVec.WithLabelValues: the series, created with value 0 when absent
WithLabelValues(g, t) ==
    IF t \in DOMAIN g THEN g
    ELSE [x \in (DOMAIN g) \cup {t} |-> IF x = t THEN 0 ELSE g[x]]

\* Gauge.Add
GaugeAdd(g, t, c) == [g EXCEPT ![t] = @ + c]

TuplesOf(g, id) == {t \in DOMAIN g : t.checkid = id}

Restrict(g, id) == [t \in TuplesOf(g, id) |-> g[t]]


(***************************************************************************)
(* Goroutines.  A record holds the locals of a pool worker or of one       *)
(* refreshSpecificCheck call: job, retries, err, resp, the index of the    *)
(* status loop; attempts, slept and writes are history (calls of           *)
(* DescribeTrustedAdvisorCheckResult made, seconds slept, calls made on    *)
(* the gauge vector); cur says the goroutine belongs to the latest         *)
(* cycle; detached says the series WithLabelValues returned was deleted    *)
(* from the vector since.  Goroutines have no identity the program reads   *)
(* (the worker number is only logged), so they are kept as a bag.          *)
(***************************************************************************)
NoJob == [checkId |-> None, checkName |-> None, checkCategory |-> None]

NoResp == [status |-> None, summary |-> NoSummary, nFlagged |-> 0]

Idle ==
    [cur |-> TRUE, pc |-> "recv", job |-> NoJob, retries |-> 0, attempts |-> 0,
     slept |-> 0, err |-> FALSE, resp |-> NoResp, si |-> 1, writes |-> 0,
     detached |-> FALSE]

\* entry of refreshSpecificCheck(checkId, checkName, checkCategory)
Enter(job) == [Idle EXCEPT !.pc = "fetch", !.job = job]

Reconciling(r) == r.pc \in {"delete", "with", "add"}

InProgress(r) == r.pc \in {"fetch", "delete", "with", "add"}

One(r) == SetToBag({r})

RECURSIVE Copies(_, _)
Copies(B, S) ==
    IF S = {} THEN 0
    ELSE LET r == CHOOSE x \in S : TRUE IN B[r] + Copies(B, S \ {r})

\* the bag of F(r) for the goroutines r of bag B
MapBag(B, F(_)) ==
    [x \in {F(r) : r \in DOMAIN B} |-> Copies(B, {r \in DOMAIN B : F(r) = x})]

\* goroutine r of the bag becomes n and every other goroutine h becomes F(h)
Step(r, n, F(_)) ==
    IF variant = "legacy" /\ n.pc = "ret" THEN MapBag(gor (-) One(r), F)
    ELSE MapBag(gor (-) One(r), F) (+) One(n)

\* goroutine r of the bag becomes n, the others stay as they are; a goroutine
\* of src/main.go is one refreshSpecificCheck call and ends as the call returns
Become(r, n) ==
    IF variant = "legacy" /\ n.pc = "ret" THEN gor (-) One(r)
    ELSE (gor (-) One(r)) (+) One(n)

\* the number of goroutines r of the bag with P(r)
Count(P(_)) == Copies(gor, {r \in DOMAIN gor : P(r)})

\* time.Sleep(time.Second * time.Duration(retries+1)), in seconds
SleepSeconds(retries) == retries + 1

\* mutant: the status loop is skipped
FetchSuccessSkipsClear(v, r, resp) ==
    [r EXCEPT !.resp = resp, !.err = FALSE, !.attempts = @ + 1,
              !.pc = "with", !.si = 1]

\* err == nil: break out of the loop, skip the `if err != nil` return and
\* start the status loop
FetchSuccess(v, r, resp) ==
    [r EXCEPT !.resp = resp, !.err = FALSE, !.attempts = @ + 1,
              !.pc = "delete", !.si = 1]

\* mutant: the `return` after the failed attempts is missing
FetchFailureFallsThrough(v, r) ==
    IF v = "pool"
    THEN [r EXCEPT !.err = TRUE, !.attempts = @ + 1,
                   !.slept = @ + SleepSeconds(r.retries),
                   !.retries = @ + 1,
                   !.pc = IF r.retries + 1 < MaxAttempts THEN "fetch" ELSE "delete"]
    ELSE [r EXCEPT !.err = TRUE, !.attempts = @ + 1, !.pc = "delete"]

\* err != nil.  Pool: log, sleep retries+1 seconds, retries++, and either the
\* next attempt or, the loop over, `if err != nil { return }`.  Legacy: log
\* and return.
FetchFailure(v, r) ==
    IF v = "pool"
    THEN [r EXCEPT !.err = TRUE, !.attempts = @ + 1,
                   !.slept = @ + SleepSeconds(r.retries),
                   !.retries = @ + 1,
                   !.pc = IF r.retries + 1 < MaxAttempts THEN "fetch" ELSE "ret"]
    ELSE [r EXCEPT !.err = TRUE, !.attempts = @ + 1, !.pc = "ret"]

\* the four clears and the set of one refreshSpecificCheck, done at once
RECURSIVE ClearFrom(_, _, _)
ClearFrom(g, job, i) ==
    IF i > Len(Statuses) THEN g
    ELSE ClearFrom(DeleteLabelValues(g, Tuple(job, Statuses[i])), job, i + 1)

RefreshAtOnce(v, g, job, resp) ==
    GaugeAdd(WithLabelValues(ClearFrom(g, job, 1), Tuple(job, resp.status)),
             Tuple(job, resp.status), FlaggedCount(v, resp))

Running == proc = "running"

\* the goroutines other than r that are reconciling checkid id
Rivals(r, id) == {h \in DOMAIN (gor (-) One(r)) : Reconciling(h) /\ h.job.checkId = id}

\* one call of DescribeTrustedAdvisorCheckResult by goroutine r
FetchAttempt(r) ==
    /\ Running
    /\ r.pc = "fetch"
    /\ LET id == r.job.checkId
       IN \/ \E resp \in Results(id) :
               LET n == FetchSuccess(variant, r, resp)
               IN /\ gor' = Become(r, n)
                  /\ dirty' = IF Reconciling(n) /\ Rivals(r, id) # {}
                              THEN dirty \cup {id} ELSE dirty
                  /\ fetched' = IF r.cur /\ n.pc # "fetch"
                                THEN [fetched EXCEPT ![id] = resp.status] ELSE fetched
                  /\ expect' = IF variant = "pool" /\ n.pc # "fetch"
                               THEN RefreshAtOnce(variant, expect, r.job, resp)
                               ELSE expect
          \/ LET n == FetchFailure(variant, r)
             IN /\ gor' = Become(r, n)
                /\ dirty' = IF Reconciling(n) /\ Rivals(r, id) # {}
                            THEN dirty \cup {id} ELSE dirty
                /\ fetched' = IF r.cur /\ n.pc # "fetch"
                              THEN [fetched EXCEPT ![id] = Failed] ELSE fetched
                /\ expect' = expect
    /\ UNCHANGED <<variant, env, concurrency, proc, mainpc, ticker, opc, caller,
                   listing, idx, jobs, closed, wg, gauge, overlapped, handed>>

\* one iteration of `for _, s := range Statuses { DeleteLabelValues(...) }`
DeleteStatus(r) ==
    /\ Running
    /\ r.pc = "delete"
    /\ LET t == Tuple(r.job, Statuses[r.si])
           n == [r EXCEPT !.si = @ + 1, !.writes = @ + 1,
                          !.pc = IF r.si = Len(Statuses) THEN "with" ELSE "delete"]
           drop(h) == IF h.pc = "add" /\ t \in DOMAIN gauge
                         /\ Tuple(h.job, h.resp.status) = t
                      THEN [h EXCEPT !.detached = TRUE] ELSE h
       IN /\ gauge' = DeleteLabelValues(gauge, t)
          /\ gor' = IF t \in DOMAIN gauge THEN Step(r, n, drop) ELSE Become(r, n)
    /\ UNCHANGED <<variant, env, concurrency, proc, mainpc, ticker, opc, caller,
                   listing, idx, jobs, closed, wg, fetched, expect, overlapped, dirty, handed>>

\* taGaugeVec.WithLabelValues(checkId, checkName, checkCategory, *result.Status)
GetSeries(r) ==
    /\ Running
    /\ r.pc = "with"
    /\ gauge' = WithLabelValues(gauge, Tuple(r.job, r.resp.status))
    /\ gor' = Become(r, [r EXCEPT !.pc = "add", !.writes = @ + 1])
    /\ UNCHANGED <<variant, env, concurrency, proc, mainpc, ticker, opc, caller,
                   listing, idx, jobs, closed, wg, fetched, expect, overlapped, dirty, handed>>

\* .Add(float64(count)) on the series obtained, then refreshSpecificCheck returns
AddCount(r) ==
    /\ Running
    /\ r.pc = "add"
    /\ gauge' = IF r.detached THEN gauge
                ELSE GaugeAdd(gauge, Tuple(r.job, r.resp.status), FlaggedCount(variant, r.resp))
    /\ gor' = Become(r, [r EXCEPT !.pc = "ret", !.writes = @ + 1, !.detached = FALSE])
    /\ dirty' = IF Rivals(r, r.job.checkId) = {} THEN dirty \ {r.job.checkId} ELSE dirty
    /\ UNCHANGED <<variant, env, concurrency, proc, mainpc, ticker, opc, caller,
                   listing, idx, jobs, closed, wg, fetched, expect, overlapped, handed>>

(***************************************************************************)
(* main, the ticker and refreshChecks.                                     *)
(***************************************************************************)
\* strconv.Atoi
Atoi(str) == IF str.digits THEN [val |-> str.n, err |-> FALSE] ELSE [val |-> 0, err |-> TRUE]

\* the environment variables main converts with Atoi: src/main.go reads
\* REFRESH_PERIOD only, the pool version CONCURRENCY as well
ParsedKeys(v) == IF v = "pool" THEN {"REFRESH_PERIOD", "CONCURRENCY"} ELSE {"REFRESH_PERIOD"}

\* main up to the start-up call of refreshChecks
MainConfig ==
    /\ Running
    /\ mainpc = "config"
    /\ IF \E k \in ParsedKeys(variant) : Atoi(env[k]).err
       THEN /\ proc' = "fatal"
            /\ UNCHANGED <<concurrency, mainpc, opc, caller>>
       ELSE /\ concurrency' = IF variant = "pool" THEN Atoi(env["CONCURRENCY"]).val ELSE 0
            /\ mainpc' = "startup"
            /\ opc' = "list"
            /\ caller' = "main"
            /\ proc' = proc
    /\ UNCHANGED <<variant, env, ticker, listing, idx, jobs, closed, wg, gor, gauge,
                   fetched, expect, overlapped, dirty, handed>>

Stale(h) == [h EXCEPT !.cur = FALSE]

\* svc.DescribeTrustedAdvisorChecks: log.Fatalf on an error, else the cycle
\* begins (the pool version makes the channel and the WaitGroup)
ListChecks ==
    /\ Running
    /\ opc = "list"
    /\ \/ /\ proc' = "fatal"
          /\ UNCHANGED <<opc, listing, idx, jobs, closed, wg, gor, fetched, expect,
                         overlapped, handed>>
       \/ \E l \in Listings :
            /\ variant = "legacy" => BagCardinality(gor) + Len(l) <= MaxGoroutines
            /\ listing' = l
            /\ idx' = 1
            /\ jobs' = <<>>
            /\ closed' = FALSE
            /\ wg' = 0
            /\ opc' = IF variant = "pool" THEN "spawn" ELSE "go"
            /\ gor' = MapBag(gor, Stale)
            /\ fetched' = [id \in CheckIds |-> None]
            /\ handed' = [id \in CheckIds |-> 0]
            /\ expect' = IF variant = "pool" THEN gauge ELSE expect
            /\ overlapped' = (gor # EmptyBag)
            /\ proc' = proc
    /\ UNCHANGED <<variant, env, concurrency, mainpc, ticker, caller, gauge, dirty>>

\* for i := 0; i < concurrency; i++: the workers started
WorkerCount(c) == IF c > 0 THEN c ELSE 0

\* the worker loop start: wg.Add(1); go func() {...}() for every i
StartWorkers ==
    /\ Running
    /\ opc = "spawn"
    /\ gor' = IF WorkerCount(concurrency) = 0 THEN EmptyBag
              ELSE [r \in {Idle} |-> WorkerCount(concurrency)]
    /\ wg' = WorkerCount(concurrency)
    /\ opc' = "send"
    /\ UNCHANGED <<variant, env, concurrency, proc, mainpc, ticker, caller, listing,
                   idx, jobs, closed, gauge, fetched, expect, overlapped, dirty, handed>>

\* jobs <- checkJob{...}: the channel holds len(resp.Checks), a send never blocks
SendJob ==
    /\ Running
    /\ opc = "send"
    /\ idx <= Len(listing)
    /\ jobs' = Append(jobs, listing[idx])
    /\ idx' = idx + 1
    /\ UNCHANGED <<variant, env, concurrency, proc, mainpc, ticker, opc, caller,
                   listing, closed, wg, gor, gauge, fetched, expect, overlapped, dirty, handed>>

\* mutant: the channel is left open
CloseJobsForgotten ==
    /\ Running
    /\ opc = "send"
    /\ idx > Len(listing)
    /\ opc' = "wait"
    /\ UNCHANGED <<variant, env, concurrency, proc, mainpc, ticker, caller, listing,
                   idx, jobs, closed, wg, gor, gauge, fetched, expect, overlapped, dirty, handed>>

\* close(jobs)
CloseJobs ==
    /\ Running
    /\ opc = "send"
    /\ idx > Len(listing)
    /\ closed' = TRUE
    /\ opc' = "wait"
    /\ UNCHANGED <<variant, env, concurrency, proc, mainpc, ticker, caller, listing,
                   idx, jobs, wg, gor, gauge, fetched, expect, overlapped, dirty, handed>>

\* what the caller of refreshChecks does when it returns: main goes on to
\* serve, the ticker loop waits for the next tick
Return ==
    /\ opc' = "idle"
    /\ mainpc' = IF caller = "main" THEN "serve" ELSE mainpc
    /\ ticker' = IF caller = "periodic" THEN "waiting" ELSE ticker

\* wg.Wait() returns and with it refreshChecks
WaitReturn ==
    /\ Running
    /\ opc = "wait"
    /\ wg = 0
    /\ Return
    /\ UNCHANGED <<variant, env, concurrency, proc, caller, listing, idx, jobs,
                   closed, wg, gor, gauge, fetched, expect, overlapped, dirty, handed>>

\* a worker's `for job := range jobs` receives a job and calls refreshSpecificCheck
WorkerReceive(r) ==
    /\ Running
    /\ variant = "pool"
    /\ r.pc = "recv"
    /\ jobs # <<>>
    /\ gor' = Become(r, Enter(Head(jobs)))
    /\ jobs' = Tail(jobs)
    /\ handed' = [handed EXCEPT ![Head(jobs).checkId] = @ + 1]
    /\ UNCHANGED <<variant, env, concurrency, proc, mainpc, ticker, opc, caller,
                   listing, idx, closed, wg, gauge, fetched, expect, overlapped, dirty>>

\* refreshSpecificCheck returned to the worker loop
WorkerNext(r) ==
    /\ Running
    /\ variant = "pool"
    /\ r.pc = "ret"
    /\ gor' = Become(r, Idle)
    /\ UNCHANGED <<variant, env, concurrency, proc, mainpc, ticker, opc, caller,
                   listing, idx, jobs, closed, wg, gauge, fetched, expect, overlapped,
                   dirty, handed>>

\* the range ends on the closed, drained channel: defer wg.Done()
WorkerExit(r) ==
    /\ Running
    /\ variant = "pool"
    /\ r.pc = "recv"
    /\ jobs = <<>>
    /\ closed
    /\ gor' = gor (-) One(r)
    /\ wg' = wg - 1
    /\ UNCHANGED <<variant, env, concurrency, proc, mainpc, ticker, opc, caller,
                   listing, idx, jobs, closed, gauge, fetched, expect, overlapped,
                   dirty, handed>>

\* src/main.go: go refreshSpecificCheck(svc, *check.Id, *check.Name, *check.Category, ...)
GoRefresh ==
    /\ Running
    /\ opc = "go"
    /\ idx <= Len(listing)
    /\ gor' = gor (+) One(Enter(listing[idx]))
    /\ handed' = [handed EXCEPT ![listing[idx].checkId] = @ + 1]
    /\ idx' = idx + 1
    /\ UNCHANGED <<variant, env, concurrency, proc, mainpc, ticker, opc, caller,
                   listing, jobs, closed, wg, gauge, fetched, expect, overlapped, dirty>>

\* src/main.go: the range over resp.Checks is over and refreshChecks returns
GoReturn ==
    /\ Running
    /\ opc = "go"
    /\ idx > Len(listing)
    /\ Return
    /\ UNCHANGED <<variant, env, concurrency, proc, caller, listing, idx, jobs,
                   closed, wg, gor, gauge, fetched, expect, overlapped, dirty, handed>>

\* go refreshChecksPeriodically(...) makes the ticker; http.ListenAndServe
\* then serves for good, or fails to bind and returns an error that main
\* drops: main returns and the process ends
MainServe ==
    /\ Running
    /\ mainpc = "serve"
    /\ \/ mainpc' = "serving" /\ ticker' = "waiting" /\ proc' = proc
       \/ mainpc' = "returned" /\ ticker' = "waiting" /\ proc' = "exit0"
    /\ UNCHANGED <<variant, env, concurrency, opc, caller, listing, idx, jobs,
                   closed, wg, gor, gauge, fetched, expect, overlapped, dirty, handed>>

\* for range ticker.C { refreshChecks(...) }: a tick is received
Tick ==
    /\ Running
    /\ ticker = "waiting"
    /\ ticker' = "refreshing"
    /\ opc' = "list"
    /\ caller' = "periodic"
    /\ UNCHANGED <<variant, env, concurrency, proc, mainpc, listing, idx, jobs,
                   closed, wg, gor, gauge, fetched, expect, overlapped, dirty, handed>>

\* The environment: REFRESH_PERIOD and CONCURRENCY are set, to digits or not.
\* src/main.go never reads CONCURRENCY; it is given the single value 1 there.
EnvValues(v) ==
    [CONCURRENCY : IF v = "pool" THEN {Digits(n) : n \in 0..MaxConcurrency} \cup {BadInt}
                   ELSE {Digits(1)},
     REFRESH_PERIOD : {Digits(300), BadInt}]

Init ==
    /\ variant \in Variants
    /\ env \in EnvValues(variant)
    /\ concurrency = 0
    /\ proc = "running"
    /\ mainpc = "config"
    /\ ticker = "off"
    /\ opc = "idle"
    /\ caller = "main"
    /\ listing = <<>>
    /\ idx = 1
    /\ jobs = <<>>
    /\ closed = FALSE
    /\ wg = 0
    /\ gor = EmptyBag
    /\ gauge = <<>>
    /\ fetched = [id \in CheckIds |-> None]
    /\ handed = [id \in CheckIds |-> 0]
    /\ expect = <<>>
    /\ overlapped = FALSE
    /\ dirty = {}

Next ==
    \/ MainConfig
    \/ ListChecks
    \/ StartWorkers
    \/ SendJob
    \/ CloseJobs
    \/ WaitReturn
    \/ GoRefresh
    \/ GoReturn
    \/ MainServe
    \/ Tick
    \/ \E r \in DOMAIN gor : WorkerReceive(r)
    \/ \E r \in DOMAIN gor : WorkerNext(r)
    \/ \E r \in DOMAIN gor : WorkerExit(r)
    \/ \E r \in DOMAIN gor : FetchAttempt(r)
    \/ \E r \in DOMAIN gor : DeleteStatus(r)
    \/ \E r \in DOMAIN gor : GetSeries(r)
    \/ \E r \in DOMAIN gor : AddCount(r)

Spec == Init /\ [][Next]_vars

\* The worker-pool program alone, under fair scheduling: the Go scheduler
\* runs every goroutine that can take a step, and the calls to the API
\* return.  Nothing is assumed of the ticker, of main before the startup
\* cycle or of the listener.
PoolInit == Init /\ variant = "pool"

PoolNext ==
    \/ MainConfig
    \/ ListChecks
    \/ StartWorkers
    \/ SendJob
    \/ CloseJobs
    \/ WaitReturn
    \/ MainServe
    \/ Tick
    \/ \E r \in DOMAIN gor : WorkerReceive(r)
    \/ \E r \in DOMAIN gor : WorkerNext(r)
    \/ \E r \in DOMAIN gor : WorkerExit(r)
    \/ \E r \in DOMAIN gor : FetchAttempt(r)
    \/ \E r \in DOMAIN gor : DeleteStatus(r)
    \/ \E r \in DOMAIN gor : GetSeries(r)
    \/ \E r \in DOMAIN gor : AddCount(r)

PoolFairness ==
    /\ WF_vars(ListChecks)
    /\ WF_vars(StartWorkers)
    /\ WF_vars(SendJob)
    /\ WF_vars(CloseJobs)
    /\ WF_vars(WaitReturn)
    /\ WF_vars(\E r \in DOMAIN gor : WorkerReceive(r))
    /\ WF_vars(\E r \in DOMAIN gor : WorkerNext(r))
    /\ WF_vars(\E r \in DOMAIN gor : WorkerExit(r))
    /\ WF_vars(\E r \in DOMAIN gor : FetchAttempt(r))
    /\ WF_vars(\E r \in DOMAIN gor : DeleteStatus(r))
    /\ WF_vars(\E r \in DOMAIN gor : GetSeries(r))
    /\ WF_vars(\E r \in DOMAIN gor : AddCount(r))

PoolFairSpec == PoolInit /\ [][PoolNext]_vars /\ PoolFairness


(***************************************************************************)
(* Properties.                                                             *)
(***************************************************************************)
ListedIds == {listing[i].checkId : i \in 1..Len(listing)}

\* the latest cycle is over: refreshChecks has returned and every
\* refreshSpecificCheck it started has too
CycleComplete ==
    /\ opc = "idle"
    /\ mainpc # "config"
    /\ \A r \in DOMAIN gor : ~r.cur

\* C1: after a complete cycle during which no other cycle ran, every listed
\* check whose fetch succeeded has exactly one tuple with its checkid, over
\* all names, categories and statuses, and that tuple has the fetched status.
C1_ExactlyOneTuple ==
    (CycleComplete /\ ~overlapped) =>
        \A id \in ListedIds :
            fetched[id] \in StatusSet =>
                \E t \in TuplesOf(gauge, id) :
                    /\ TuplesOf(gauge, id) = {t}
                    /\ t.status = fetched[id]

\* C2: in every reachable state the gauge set holds at most one tuple per
\* checkid with a given name and category: never two statuses at once.
C2_NeverTwoStatuses ==
    \A t1, t2 \in DOMAIN gauge :
        (t1.checkid = t2.checkid /\ t1.name = t2.name /\ t1.category = t2.category)
            => t1 = t2

C4_ThreeAttempts ==
    [][ /\ \A r \in DOMAIN gor :
             /\ r.attempts <= MaxAttempts
             /\ r.pc = "fetch" => (r.resp = NoResp /\ r.attempts = r.retries)
             /\ (r.err /\ r.attempts = MaxAttempts) => (r.pc = "ret" /\ r.writes = 0)
        /\ \A id \in CheckIds :
             (fetched'[id] = Failed /\ fetched[id] # Failed) =>
                 \E r \in DOMAIN gor :
                     /\ r.pc = "fetch"
                     /\ r.job.checkId = id
                     /\ r.attempts = MaxAttempts - 1 ]_vars

\* C5: the refresher sleeps only before a next attempt, 1 second and then 2
\* seconds: never more than 3 seconds for one check.
C5_BackoffBound ==
    \A r \in DOMAIN gor : r.slept <= SleepSeconds(0) + SleepSeconds(1)

\* C6: once refreshChecks has returned, no refreshSpecificCheck it started
\* is still running.
C6_Barrier ==
    \A r \in DOMAIN gor :
        InProgress(r) => (r.cur /\ opc \in {"spawn", "send", "wait", "go"})

\* C7: within one cycle at most CONCURRENCY refreshSpecificCheck calls are
\* in progress at a time.
C7_PoolBound ==
    ~Atoi(env["CONCURRENCY"]).err =>
        Count(LAMBDA r : InProgress(r) /\ r.cur) <= Atoi(env["CONCURRENCY"]).val

\* C8: in a cycle every listed check is handed to refreshSpecificCheck
\* exactly once, and no other check is.
C8_EachCheckOnce ==
    CycleComplete =>
        \A id \in CheckIds : handed[id] = IF id \in ListedIds THEN 1 ELSE 0

\* The gauge set g after the checks of the listing numbered in S, with
\* fetch results F, are refreshed one after another.
RECURSIVE OneAfterAnother(_, _, _)
OneAfterAnother(g, F, S) ==
    IF S = {} THEN g
    ELSE LET i == CHOOSE x \in S : \A y \in S : x <= y
             h == IF F[i] = NoResp THEN g
                  ELSE RefreshAtOnce(variant, g, listing[i], F[i])
         IN OneAfterAnother(h, F, S \ {i})

\* the listed checks the latest cycle made no fetch for
Unfetched == {i \in 1..Len(listing) : fetched[listing[i].checkId] = None}

\* the results a fetch of those checks can give (NoResp: it fails)
Outcomes ==
    {F \in [Unfetched -> UNION {Results(id) : id \in CheckIds} \cup {NoResp}] :
        \A i \in Unfetched : F[i] \in Results(listing[i].checkId) \cup {NoResp}}

\* C9: with more listed checks than workers, the gauge set after a cycle
\* through the pool is, whatever the fetches return, the one obtained by
\* refreshing the listed checks one after another.
C9_SameAsSequential ==
    (variant = "pool" /\ CycleComplete /\ Len(listing) > concurrency) =>
        \A F \in Outcomes : gauge = OneAfterAnother(expect, F, Unfetched)

\* C10: the Add that ends a reconciliation no other reconciliation of the
\* check overlapped leaves the tuple of the fetched status with the fetched
\* count of flagged resources, and no tuple of another status for the
\* check's id, name and category.
C10_ValueIsFetchedCount ==
    [][ \A r \in DOMAIN gor :
          (r.pc = "add" /\ r.job.checkId \notin dirty /\ AddCount(r)) =>
              /\ Tuple(r.job, r.resp.status) \in DOMAIN gauge'
              /\ gauge'[Tuple(r.job, r.resp.status)] = FlaggedCount(variant, r.resp)
              /\ \A s \in StatusSet \ {r.resp.status} :
                    Tuple(r.job, s) \notin DOMAIN gauge' ]_vars

\* a pool worker back from refreshing check A, found warning with 8 flagged
C10_Witness ==
    \E r \in DOMAIN gor :
        /\ variant = "pool"
        /\ r.pc = "ret"
        /\ ~r.err
        /\ r.job.checkId = "A"
        /\ r.resp.status = "warning"
        /\ gauge[Tuple(r.job, "warning")] = 8


\* C11: in every reachable state the value of every tuple of the gauge set
\* is the flagged-resource count of one fetch of that check with the tuple's
\* status, never a combination of several fetches.
C11_ValueOfOneFetch ==
    \A t \in DOMAIN gauge :
        \E resp \in Results(t.checkid) :
            /\ resp.status = t.status
            /\ gauge[t] = FlaggedCount(variant, resp)

\* C12: when main is about to start the listener and the periodic trigger,
\* no refresh of the startup cycle is in flight and every check of the
\* startup listing whose fetch succeeded has its tuple.
C12_StartupSynchronous ==
    mainpc = "serve" =>
        /\ \A r \in DOMAIN gor : ~InProgress(r)
        /\ \A i \in 1..Len(listing) :
              fetched[listing[i].checkId] \in StatusSet =>
                  Tuple(listing[i], fetched[listing[i].checkId]) \in DOMAIN gauge

\* C13: a tick starts the next cycle whether or not the previous cycle has
\* finished: while refreshes handed out by a periodic cycle are in progress
\* the periodic loop is back at its ticker, so that the next run of the
\* orchestrator can begin beside them.
C13_TicksNotHeldBack ==
    (Running /\ mainpc = "serving" /\ opc \notin {"list", "spawn", "send", "go"}
       /\ \E r \in DOMAIN gor : InProgress(r))
        => ticker = "waiting"

\* C14: a failure of the listing call ends the process only in the startup
\* cycle; in a periodic cycle the process keeps running.
C14_PeriodicListingFailureRecoverable ==
    proc = "fatal" => mainpc \in {"config", "startup"}

\* C15: after a cycle has completed, with no refresh left running, the gauge
\* set holds no tuple of a checkid absent from that cycle's listing.
C15_NoStaleCheck ==
    (CycleComplete /\ \A r \in DOMAIN gor : ~InProgress(r)) =>
        \A id \in CheckIds \ ListedIds : TuplesOf(gauge, id) = {}

\* C16: at every instant after the startup cycle at which the process serves
\* scrapes, every check of the most recent listing has exactly one tuple.
C16_EachKnownCheckOnce ==
    (Running /\ mainpc \in {"serve", "serving"}) =>
        \A id \in ListedIds : Cardinality(TuplesOf(gauge, id)) = 1

\* C17: when ListenAndServe fails to bind, the process ends with a fatal
\* outcome, never with a successful exit status.
C17_BindFailureFatal ==
    mainpc = "returned" => proc = "fatal"

\* C18: within one refreshSpecificCheck call no gauge operation precedes a
\* successful fetch, the four deletes come first and in the order of
\* Statuses, WithLabelValues(...).Add follows the fourth delete, and nothing
\* follows the Add (writes counts the calls made on the gauge vector).
C18_ClearBeforeSet ==
    \A r \in DOMAIN gor :
        /\ r.pc = "fetch" => (r.writes = 0 /\ r.resp = NoResp)
        /\ r.pc = "delete" =>
              (~r.err /\ r.resp.status \in StatusSet /\ r.si <= Len(Statuses)
                 /\ r.writes = r.si - 1)
        /\ r.pc = "with" =>
              (~r.err /\ r.resp.status \in StatusSet /\ r.si = Len(Statuses) + 1
                 /\ r.writes = Len(Statuses))
        /\ r.pc = "add" => (~r.err /\ r.writes = Len(Statuses) + 1)
        /\ r.pc = "ret" => (r.writes = IF r.err THEN 0 ELSE Len(Statuses) + 2)

\* a refreshSpecificCheck call that has made its four deletes and its add
C18_Witness ==
    \E r \in DOMAIN gor :
        /\ r.pc = "ret"
        /\ ~r.err
        /\ r.writes = Len(Statuses) + 2
        /\ Tuple(r.job, r.resp.status) \in DOMAIN gauge

\* C20: a step of refreshSpecificCheck for check X (a step in which the
\* record of a goroutine refreshing X changes) leaves the tuples of every
\* other checkid, and their values, as they are.
C20_OnlyOwnTuples ==
    [][ \A r \in DOMAIN gor :
          (InProgress(r) /\ gauge' # gauge
             /\ (r \notin DOMAIN gor' \/ gor'[r] < gor[r])) =>
              \A id \in CheckIds \ {r.job.checkId} :
                  Restrict(gauge', id) = Restrict(gauge, id) ]_vars

\* check A has just been refreshed while check B has a tuple exported
C20_Witness ==
    \E r \in DOMAIN gor :
        /\ r.pc = "ret"
        /\ ~r.err
        /\ r.job.checkId = "A"
        /\ TuplesOf(gauge, "A") # {}
        /\ TuplesOf(gauge, "B") # {}

\* C19: a cycle of the worker-pool refreshChecks terminates.  The channel
\* never holds more jobs than its capacity len(resp.Checks), so no send
\* blocks, and under fair scheduling a refreshChecks call whose listing has
\* returned returns, for every listing and every pool size.
C19_CycleTerminates ==
    /\ [](Len(jobs) <= Len(listing))
    /\ (variant = "pool" /\ opc = "spawn") ~> (opc = "idle")

\* a pool cycle of two checks and one worker has returned, both checks handed
C19_Witness ==
    /\ variant = "pool"
    /\ opc = "idle"
    /\ mainpc # "config"
    /\ concurrency = 1
    /\ Len(listing) = 2
    /\ \A id \in ListedIds : handed[id] = 1

=============================================================================
